---- MODULE Spec2Model ----
(***************************************************************************)
(* audio-my-book (src/audio_my_book/main.py): a plain-text book is split   *)
(* into chapters by a heading regex, the chapters matching the glob are    *)
(* chunked, and every chunk whose .mp3 does not exist yet is converted by  *)
(* one asyncio task that retries on openai.RateLimitError.                 *)
(*                                                                         *)
(* Text is a sequence of one-character strings.  Offsets are Python's      *)
(* 0-based offsets; Slice(s, a, b) is Python's s[a:b].                     *)
(***************************************************************************)
EXTENDS Integers, Sequences, FiniteSets, TLC

(***************************************************************************)
(* Bounds of the model.                                                    *)
(***************************************************************************)
\* _process_chunk's max_retries (default 10, main.py:22), scaled down.
max_retries == 2
\* TextChunker's chunk size (4096, main.py:12), scaled down.
ChunkSize == 12
\* How many times the command is run on the same input.
MaxRuns == 2
\* Segments per input text, when segmentation alone is checked.
MaxSegs == 4

(***************************************************************************)
(* Characters and the input texts.                                         *)
(***************************************************************************)
Digits == <<"0", "1", "2", "3", "4", "5", "6", "7", "8", "9">>

AlphaNum ==
  {"a","b","c","d","e","f","g","h","i","j","k","l","m","n","o","p","q","r",
   "s","t","u","v","w","x","y","z",
   "A","B","C","D","E","F","G","H","I","J","K","L","M","N","O","P","Q","R",
   "S","T","U","V","W","X","Y","Z",
   "0","1","2","3","4","5","6","7","8","9"}

\* What the regex class \s matches (ASCII).
IsSpace(c) == c \in {" ", "\t", "\n", "\r", "\f"}

SegChapter1 == <<"#"," ","C","h","a","p","t","e","r"," ","1","\n">>
SegChapterX == <<"#"," ","C","h","a","p","t","e","r"," ","!","\n">>
SegChapterY == <<"#"," ","C","h","a","p","t","e","r"," ","?","\n">>
SegEnd      == <<"#"," ","E","n","d","\n">>
SegBody     == <<"H","i",".","\n">>
SegPreface  == <<"P","r","e","f","a","c","e","\n">>
SegInline   == <<"a"," ","#"," ","b","\n">>
SegGlued    == <<"a","#","b","\n">>
SegBare     == <<"#","\n">>
SegLower    == <<"#"," ","c","h","a","p","t","e","r"," ","1","\n">>

ChapterSegs == {SegChapter1, SegChapterX, SegChapterY}
AllSegs == ChapterSegs \cup {SegEnd, SegBody, SegPreface, SegInline, SegGlued,
                             SegBare, SegLower}

RECURSIVE Concat(_)
Concat(ss) == IF ss = <<>> THEN <<>> ELSE Head(ss) \o Concat(Tail(ss))

TextsOf(segs, n) ==
  { Concat(ss) : ss \in UNION { [1..k -> segs] : k \in 0..n } }

\* The input texts of the runs: without a heading, without a matching
\* heading, with a matching heading last (the example of the specification
\* among them), and with one or two chapters that are followed by another
\* heading, of equal titles, of titles with equal slugs, and of different
\* slugs, with and without a body.
RunTexts ==
  {<<>>, SegBody, SegEnd, SegPreface \o SegEnd \o SegBody}
  \cup ChapterSegs
  \cup {SegPreface \o SegChapter1 \o SegBody \o SegChapterX \o SegBody}
  \cup {a \o SegEnd \o b : a, b \in ChapterSegs}
  \cup {a \o SegEnd \o SegBody : a \in ChapterSegs}
  \cup {a \o SegBody \o SegEnd : a \in ChapterSegs}
  \cup {a \o b \o SegEnd : a, b \in ChapterSegs}
  \cup {SegChapter1 \o SegBody \o SegChapterX \o SegEnd}

(***************************************************************************)
(* Python helpers.                                                         *)
(***************************************************************************)
Min(a, b) == IF a < b THEN a ELSE b
Max(a, b) == IF a > b THEN a ELSE b

\* s[a:b] with Python's treatment of a negative or too large b.
Slice(s, a, b) ==
  LET hi == IF b < 0 THEN Max(Len(s) + b, 0) ELSE Min(b, Len(s))
  IN  SubSeq(s, a + 1, hi)

(***************************************************************************)
(* re.finditer over the heading pattern (a hash, one or more whitespace    *)
(* characters, then a group taking the rest of the line): the matches,     *)
(* non-overlapping, left to right.  A match starts at a hash followed by   *)
(* at least one whitespace character; the whitespace run is taken whole    *)
(* (line breaks included), and the title is the rest of the line the run   *)
(* stops on.                                                               *)
(***************************************************************************)
SkipSpace(s, p) ==
  LET skip[i \in 0..Len(s)] ==
        IF i < Len(s) /\ IsSpace(s[i + 1]) THEN skip[i + 1] ELSE i
  IN  skip[p]

LineEnd(s, p) ==
  LET line[i \in 0..Len(s)] ==
        IF i < Len(s) /\ s[i + 1] # "\n" THEN line[i + 1] ELSE i
  IN  line[p]

FindHeadings(s, p) ==
  LET find[i \in 0..Len(s)] ==
        IF i >= Len(s) THEN <<>>
        ELSE IF s[i + 1] = "#" /\ i + 1 < Len(s) /\ IsSpace(s[i + 2])
             THEN LET q == SkipSpace(s, i + 1)
                      e == LineEnd(s, q)
                  IN  << <<i, Slice(s, q, e)>> >> \o find[e]
             ELSE find[i + 1]
  IN  find[p]

\* chapters: the (match.start(), match.group(1)) pairs of the whole text.
Headings(s) == FindHeadings(s, 0)

(***************************************************************************)
(* fnmatch.fnmatch(title, pattern) with the pattern  Chapter *  on a       *)
(* case-sensitive platform: the title starts with Chapter and one space,   *)
(* and anything (nothing included) follows.                                *)
(***************************************************************************)
GlobPrefix == <<"C","h","a","p","t","e","r"," ">>

\* A glob that every title matches.
FnMatchAny(title) == TRUE

FnMatch(title) ==
  /\ Len(title) >= Len(GlobPrefix)
  /\ SubSeq(title, 1, Len(GlobPrefix)) = GlobPrefix

(***************************************************************************)
(* The filter loop of _process_book.  idx is 0-based as in the source;     *)
(* chapters[idx + 1] of the last heading raises IndexError, since the      *)
(* guard idx < len(chapters) is true of every idx.                         *)
(***************************************************************************)
\* chapters[idx + 1] is out of range.
ChapterEndRaises(chs, idx) == idx < Len(chs) /\ ~(idx + 1 < Len(chs))

\* A filter that bounds a chapter by the next selected heading instead.
RECURSIVE ChapterEndNextSelected(_, _)
ChapterEndNextSelected(chs, idx) ==
  IF idx + 2 > Len(chs) THEN -1
  ELSE IF FnMatch(chs[idx + 2][2]) \/ idx + 2 = Len(chs) THEN chs[idx + 2][1]
  ELSE ChapterEndNextSelected(chs, idx + 1)

\* chapters[idx + 1][0] if idx < len(chapters) else -1
ChapterEnd(chs, idx) == IF idx < Len(chs) THEN chs[idx + 2][1] ELSE -1

\* The loop from idx on, acc being selected_chapters so far.  err: the loop
\* ended in IndexError (sel is then what had been appended before it).
RECURSIVE SelectFrom(_, _, _)
SelectFrom(chs, idx, acc) ==
  IF idx >= Len(chs) THEN [err |-> FALSE, sel |-> acc]
  ELSE LET ch == chs[idx + 1]
       IN  IF ~FnMatch(ch[2]) THEN SelectFrom(chs, idx + 1, acc)
           ELSE IF ChapterEndRaises(chs, idx) THEN [err |-> TRUE, sel |-> acc]
           ELSE SelectFrom(chs, idx + 1,
                           Append(acc, <<ch[1], ChapterEnd(chs, idx), ch[2]>>))

\* selected_chapters: (start, end, title) triples.
SelectChapters(chs) == SelectFrom(chs, 0, <<>>)

(***************************************************************************)
(* slugify and the file names of a chunk.                                  *)
(***************************************************************************)
slugify(title) ==
  [k \in 1..Len(title) |-> IF title[k] \in AlphaNum THEN title[k] ELSE "_"]

RECURSIVE Decimal(_)
Decimal(n) == IF n < 10 THEN <<Digits[n + 1]>>
              ELSE Decimal(n \div 10) \o <<Digits[(n % 10) + 1]>>

\* The format spec {i:0>3}.
Pad3(i) ==
  LET d == Decimal(i)
  IN  [k \in 1..Max(3 - Len(d), 0) |-> "0"] \o d

\* The name {slugify(chapter_title)}---{i:0>3}.mp3 of line 51.
SpeechFilename(title, i) ==
  slugify(title) \o <<"-","-","-">> \o Pad3(i) \o <<".","m","p","3">>

\* Path.with_suffix: the part from the last dot on is replaced by .txt.
RECURSIVE LastDot(_, _)
LastDot(name, p) ==
  IF p = 0 THEN 0 ELSE IF name[p] = "." THEN p ELSE LastDot(name, p - 1)

WithSuffixTxt(name) ==
  LET d == LastDot(name, Len(name))
  IN  (IF d > 1 THEN SubSeq(name, 1, d - 1) ELSE name) \o <<".","t","x","t">>

(***************************************************************************)
(* text_chunker.chunk(chapter_text): an ordered split into pieces of at    *)
(* most ChunkSize characters.                                              *)
(***************************************************************************)
NumChunks(s) == (Len(s) + ChunkSize - 1) \div ChunkSize

Chunks(s) ==
  [k \in 1..NumChunks(s) |-> Slice(s, (k - 1) * ChunkSize, k * ChunkSize)]

(***************************************************************************)
(* The state of the program and of the directory it writes to.             *)
(***************************************************************************)
VARIABLES
  text,      \* the content of input_txt
  files,     \* the output directory: file name -> [data, complete]
  run,       \* which run of the command this is
  pc,        \* where _process_book is: read, filter, spawn, join, or how it ended
  chapters,  \* _process_book's chapters
  selected,  \* _process_book's selected_chapters
  chap,      \* the _process_chapter tasks, one per selected chapter
  tasks,     \* the _process_chunk tasks, in the order of their creation
  aborting,  \* the book-level TaskGroup has cancelled its tasks
  files0,    \* history: the directory when this run started
  prev       \* history: how the previous run ended

vars == <<text, files, run, pc, chapters, selected, chap, tasks, aborting,
          files0, prev>>

Ended == {"done", "IndexError", "ExceptionGroup"}
ChapFinished == {"done", "failed", "cancelled"}
TaskFinished == {"done", "gaveup", "failed", "cancelled"}

NoFiles == [n \in {} |-> [data |-> <<>>, complete |-> TRUE]]
NoPrev == [end |-> "none", allOk |-> FALSE, gaveUp |-> FALSE]

\* chapter_text = text[chapter[0] : chapter[1]] of selected chapter c.
ChapterText(c) == Slice(text, selected[c][1], selected[c][2])
ChapterTitle(c) == selected[c][3]
\* The chunk and the two file names of chunk i (0-based) of chapter c.
ChunkOf(c, i) == Chunks(ChapterText(c))[i + 1]
Mp3Of(c, i) == SpeechFilename(ChapterTitle(c), i)
TxtOf(c, i) == WithSuffixTxt(Mp3Of(c, i))
\* speech_filename.exists()
Exists(name) == name \in DOMAIN files

TaskIds == 1..Len(tasks)
TasksOfChapter(c) == {t \in TaskIds : tasks[t].c = c}
\* Every task created so far has run up to its first await.
AllStarted ==
  /\ pc = "join"
  /\ \A c \in 1..Len(chap) : chap[c].st # "new"
  /\ \A t \in TaskIds : tasks[t].st # "new"

Write(name, data, complete) ==
  (name :> [data |-> data, complete |-> complete]) @@ files

(***************************************************************************)
(* _process_book, lines 60-86.                                             *)
(***************************************************************************)
\* Lines 66-68: the heading scan.
Segment ==
  /\ pc = "read"
  /\ chapters' = Headings(text)
  /\ pc' = "filter"
  /\ UNCHANGED <<text, files, run, selected, chap, tasks, aborting, files0, prev>>

\* Lines 71-77: the filter loop, which may end in IndexError.
Filter ==
  /\ pc = "filter"
  /\ LET r == SelectChapters(chapters)
     IN  /\ selected' = r.sel
         /\ pc' = IF r.err THEN "IndexError" ELSE "spawn"
  /\ UNCHANGED <<text, files, run, chapters, chap, tasks, aborting, files0, prev>>

NewChapter == [st |-> "new", cancelReq |-> FALSE, aborted |-> FALSE]

\* Lines 80-84: one task per selected chapter, then the group's exit waits.
SpawnChapters ==
  /\ pc = "spawn"
  /\ chap' = [c \in 1..Len(selected) |-> NewChapter]
  /\ pc' = "join"
  /\ UNCHANGED <<text, files, run, chapters, selected, tasks, aborting, files0, prev>>

(***************************************************************************)
(* _process_chapter, lines 45-57.                                          *)
(***************************************************************************)
\* retries is the coroutine's counter; nreq counts the requests it has issued
\* and last is the answer to the latest of them.
NewTask(c, i) ==
  [c |-> c, i |-> i, st |-> "new", retries |-> 0, nreq |-> 0, last |-> "none"]

\* A scan that skips nothing.
SkipsNever(c, i) == FALSE

\* A scan that takes the companion text for the sign of a finished chunk.
SkipsIfTextExists(c, i) == Exists(TxtOf(c, i))

\* A scan that skips a chunk only when its audio file was written in full.
SkipsIfComplete(c, i) == Exists(Mp3Of(c, i)) /\ files[Mp3Of(c, i)].complete

\* Line 52: the chunk is skipped when its audio file exists.
Skips(c, i) == Exists(Mp3Of(c, i))

\* Lines 49-55 from chunk i on: the tasks created, in order.
RECURSIVE CreateTasks(_, _)
CreateTasks(c, i) ==
  IF i >= NumChunks(ChapterText(c)) THEN <<>>
  ELSE (IF Skips(c, i) THEN <<>> ELSE <<NewTask(c, i)>>) \o CreateTasks(c, i + 1)

\* The first step of a chapter task: it runs to the exit of its TaskGroup,
\* where it waits for its chunk tasks, or passes it when there are none.
\* Chapter tasks start in the order of their creation.
ScanChapter(c) ==
  /\ pc = "join"
  /\ chap[c].st = "new"
  /\ \A d \in 1..(c - 1) : chap[d].st # "new"
  /\ LET new == CreateTasks(c, 0)
     IN  /\ tasks' = tasks \o new
         /\ chap' = [chap EXCEPT ![c].st = IF new = <<>> THEN "done" ELSE "waiting"]
  /\ UNCHANGED <<text, files, run, pc, chapters, selected, aborting, files0, prev>>

(***************************************************************************)
(* _process_chunk, lines 22-42.                                            *)
(***************************************************************************)
\* What the service answers to one request.
Responses == {"ok", "ratelimit", "error"}

\* A loop that allows one more iteration.
LoopContinuesInclusive(retries) == retries <= max_retries

\* Line 28, with success false: retries < max_retries.
LoopContinues(retries) == retries < max_retries

\* A handler that catches every exception of the request.
IsCaughtAny(r) == TRUE

\* Line 34: the only exception the loop catches.
IsCaught(r) == r = "ratelimit"

\* A coroutine that raises once its retries are used up.
AfterExhaustionRaises == "failed"

\* Lines 39-42: after the loop without success the coroutine returns.
AfterExhaustion == "gaveup"

\* Line 28 entered with the given retries: the next request, or the end.
EnterLoop(tk) ==
  IF LoopContinues(tk.retries)
  THEN [tk EXCEPT !.st = "requesting", !.nreq = @ + 1]
  ELSE [tk EXCEPT !.st = AfterExhaustion]

\* Lines 23-30: the companion text is written, then the first request is
\* issued.  Tasks start in the order of their creation, once every chapter
\* task has run its first step (the loop's ready queue is first in, first out).
StartChunk(t) ==
  /\ pc = "join"
  /\ \A c \in 1..Len(chap) : chap[c].st # "new"
  /\ tasks[t].st = "new"
  /\ \A u \in 1..(t - 1) : tasks[u].st # "new"
  /\ files' = Write(TxtOf(tasks[t].c, tasks[t].i), ChunkOf(tasks[t].c, tasks[t].i), TRUE)
  /\ tasks' = [tasks EXCEPT ![t] = EnterLoop(@)]
  /\ UNCHANGED <<text, run, pc, chapters, selected, chap, aborting, files0, prev>>

\* A handler that goes back to the loop condition without sleeping.
RespondNoSleep(t, r) ==
  /\ AllStarted
  /\ tasks[t].st = "requesting"
  /\ IF r = "ok"
     THEN /\ files' = Write(Mp3Of(tasks[t].c, tasks[t].i), ChunkOf(tasks[t].c, tasks[t].i), FALSE)
          /\ tasks' = [tasks EXCEPT ![t].st = "streaming", ![t].last = r]
     ELSE IF IsCaught(r)
     THEN /\ tasks' = [tasks EXCEPT ![t] = EnterLoop([@ EXCEPT !.retries = @ + 1,
                                                               !.last = r])]
          /\ UNCHANGED files
     ELSE /\ tasks' = [tasks EXCEPT ![t].st = "failed", ![t].last = r]
          /\ UNCHANGED files
  /\ UNCHANGED <<text, run, pc, chapters, selected, chap, aborting, files0, prev>>

\* Lines 30-37: the answer to the request in flight.  A success opens the
\* audio file for streaming; a rate limit counts a retry and sleeps; any
\* other error leaves the coroutine.
Respond(t, r) ==
  /\ AllStarted
  /\ tasks[t].st = "requesting"
  /\ IF r = "ok"
     THEN /\ files' = Write(Mp3Of(tasks[t].c, tasks[t].i), ChunkOf(tasks[t].c, tasks[t].i), FALSE)
          /\ tasks' = [tasks EXCEPT ![t].st = "streaming", ![t].last = r]
     ELSE IF IsCaught(r)
     THEN /\ tasks' = [tasks EXCEPT ![t].st = "sleeping", ![t].retries = @ + 1,
                                    ![t].last = r]
          /\ UNCHANGED files
     ELSE /\ tasks' = [tasks EXCEPT ![t].st = "failed", ![t].last = r]
          /\ UNCHANGED files
  /\ UNCHANGED <<text, run, pc, chapters, selected, chap, aborting, files0, prev>>

\* Lines 31-33: astream_to_file has written the whole response.
StreamDone(t) ==
  /\ AllStarted
  /\ tasks[t].st = "streaming"
  /\ files' = Write(Mp3Of(tasks[t].c, tasks[t].i), ChunkOf(tasks[t].c, tasks[t].i), TRUE)
  /\ tasks' = [tasks EXCEPT ![t].st = "done"]
  /\ UNCHANGED <<text, run, pc, chapters, selected, chap, aborting, files0, prev>>

\* Line 37 returns: back to the loop condition of line 28.
Wake(t) ==
  /\ AllStarted
  /\ tasks[t].st = "sleeping"
  /\ tasks' = [tasks EXCEPT ![t] = EnterLoop(@)]
  /\ UNCHANGED <<text, files, run, pc, chapters, selected, chap, aborting, files0, prev>>

(***************************************************************************)
(* asyncio.TaskGroup, as used at lines 48 and 81.                          *)
(***************************************************************************)
\* The chapter's group cancels a task that has not finished.
Cancelled(tk) == IF tk.st \in TaskFinished THEN tk ELSE [tk EXCEPT !.st = "cancelled"]

\* The chapter's group aborts: one of its tasks raised, or the chapter task
\* itself was cancelled while waiting.  Every unfinished task of the group
\* is cancelled.
AbortChapter(c) ==
  /\ pc = "join"
  /\ chap[c].st = "waiting"
  /\ ~chap[c].aborted
  /\ \/ chap[c].cancelReq
     \/ \E t \in TasksOfChapter(c) : tasks[t].st = "failed"
  /\ chap' = [chap EXCEPT ![c].aborted = TRUE]
  /\ tasks' = [t \in TaskIds |-> IF tasks[t].c = c THEN Cancelled(tasks[t]) ELSE tasks[t]]
  /\ UNCHANGED <<text, files, run, pc, chapters, selected, aborting, files0, prev>>

\* An exit that waits for the first task only.
ChunksJoinedFirst(c) == \E t \in TasksOfChapter(c) : tasks[t].st \in TaskFinished

\* The exit of the chapter's group waits for these.
ChunksJoined(c) == \A t \in TasksOfChapter(c) : tasks[t].st \in TaskFinished

\* Line 48 exits: with the tasks' errors, with the cancellation, or normally
\* (line 57 then reports the chapter's completion).  A group that has an
\* error or a cancellation to pass on has aborted before it exits.
JoinChapter(c) ==
  /\ pc = "join"
  /\ chap[c].st = "waiting"
  /\ ChunksJoined(c)
  /\ (chap[c].cancelReq \/ \E t \in TasksOfChapter(c) : tasks[t].st = "failed")
       => chap[c].aborted
  /\ chap' = [chap EXCEPT ![c].st =
                IF \E t \in TasksOfChapter(c) : tasks[t].st = "failed" THEN "failed"
                ELSE IF chap[c].cancelReq THEN "cancelled"
                ELSE "done"]
  /\ UNCHANGED <<text, files, run, pc, chapters, selected, tasks, aborting, files0, prev>>

\* The book's group aborts: a chapter task raised.  Every unfinished chapter
\* task is cancelled.
AbortBook ==
  /\ pc = "join"
  /\ ~aborting
  /\ \E c \in 1..Len(chap) : chap[c].st = "failed"
  /\ aborting' = TRUE
  /\ chap' = [c \in 1..Len(chap) |->
                IF chap[c].st \in ChapFinished THEN chap[c]
                ELSE [chap[c] EXCEPT !.cancelReq = TRUE]]
  /\ UNCHANGED <<text, files, run, pc, chapters, selected, tasks, files0, prev>>

\* The exit of the book's group waits for these.
ChaptersJoined == \A c \in 1..Len(chap) : chap[c].st \in ChapFinished

\* Line 81 exits: with the chapters' errors, or normally (line 86 then
\* prints the summary).  A group that has an error to pass on has aborted
\* before it exits.
JoinBook ==
  /\ pc = "join"
  /\ ChaptersJoined
  /\ (\E c \in 1..Len(chap) : chap[c].st = "failed") => aborting
  /\ pc' = IF \E c \in 1..Len(chap) : chap[c].st = "failed"
           THEN "ExceptionGroup" ELSE "done"
  /\ UNCHANGED <<text, files, run, chapters, selected, chap, tasks, aborting, files0, prev>>

(***************************************************************************)
(* cli, lines 98-100: the command is run again on the same input.          *)
(***************************************************************************)
NextRun ==
  /\ pc \in Ended
  /\ run < MaxRuns
  /\ run' = run + 1
  /\ pc' = "read"
  /\ chapters' = <<>>
  /\ selected' = <<>>
  /\ chap' = <<>>
  /\ tasks' = <<>>
  /\ aborting' = FALSE
  /\ files0' = files
  /\ prev' = [end |-> pc,
              allOk |-> \A t \in TaskIds : tasks[t].st = "done" /\ tasks[t].retries = 0,
              gaveUp |-> \E t \in TaskIds : tasks[t].st = "gaveup"]
  /\ UNCHANGED <<text, files>>

(***************************************************************************)
(* The specifications.                                                     *)
(***************************************************************************)
Fresh ==
  /\ files = NoFiles
  /\ run = 1
  /\ pc = "read"
  /\ chapters = <<>>
  /\ selected = <<>>
  /\ chap = <<>>
  /\ tasks = <<>>
  /\ aborting = FALSE
  /\ files0 = NoFiles
  /\ prev = NoPrev

Init == text \in RunTexts /\ Fresh

Next ==
  \/ Segment
  \/ Filter
  \/ SpawnChapters
  \/ \E c \in 1..Len(chap) : ScanChapter(c)
  \/ \E t \in TaskIds : StartChunk(t)
  \/ \E t \in TaskIds : \E r \in Responses : Respond(t, r)
  \/ \E t \in TaskIds : StreamDone(t)
  \/ \E t \in TaskIds : Wake(t)
  \/ \E c \in 1..Len(chap) : AbortChapter(c)
  \/ \E c \in 1..Len(chap) : JoinChapter(c)
  \/ AbortBook
  \/ JoinBook
  \/ NextRun

Spec == Init /\ [][Next]_vars

\* The event loop runs every task that can run, every request is answered
\* and every sleep ends: some step is taken as long as one is possible.
FairSpec == Spec /\ WF_vars(Next)

\* Segmentation and filtering alone, over a wider set of texts.
InitSeg == text \in TextsOf(AllSegs, MaxSegs) /\ Fresh

NextSeg ==
  \/ Segment
  \/ Filter

SpecSeg == InitSeg /\ [][NextSeg]_vars

(***************************************************************************)
(* What the claims speak of.                                               *)
(***************************************************************************)
\* The filter loop has been run.
Filtered == pc \notin {"read", "filter"}

HeadingIds == 1..Len(chapters)
Matching == {k \in HeadingIds : FnMatch(chapters[k][2])}
\* The heading that the j-th selected chapter must come from.
NthMatching(j) ==
  CHOOSE k \in Matching : Cardinality({m \in Matching : m <= k}) = j
\* Where the span of heading k ends: at the next heading of the full list,
\* or at the end of the text.
SpanEnd(k) == IF k < Len(chapters) THEN chapters[k + 1][1] ELSE Len(text)

(***************************************************************************)
(* C3: for every text with at least one heading, the filter loop ends      *)
(* without an error, and the span of each selected heading k runs from its *)
(* offset to the offset of heading k + 1 of the full list, or to the end   *)
(* of the text when k is the last heading, with 0 <= start < end <= len.   *)
(* The code raises IndexError when the last heading is selected.           *)
(***************************************************************************)
C3_SpansPartition ==
  (Filtered /\ chapters # <<>>) =>
    /\ pc # "IndexError"
    /\ Len(selected) = Cardinality(Matching)
    /\ \A j \in 1..Len(selected) :
         LET k == NthMatching(j)
         IN  /\ selected[j][1] = chapters[k][1]
             /\ selected[j][2] = SpanEnd(k)
             /\ 0 <= selected[j][1]
             /\ selected[j][1] < selected[j][2]
             /\ selected[j][2] <= Len(text)

TaskChunk(t) == ChunkOf(tasks[t].c, tasks[t].i)
TaskMp3(t) == Mp3Of(tasks[t].c, tasks[t].i)
TaskTxt(t) == TxtOf(tasks[t].c, tasks[t].i)

\* Task t has left its coroutine, by return or by its own exception.
Left(t) == tasks[t].st \in {"done", "gaveup", "failed"}
\* Every request of task t was answered with a rate limit.
AlwaysRateLimited(t) == tasks[t].nreq > 0 /\ tasks[t].retries = tasks[t].nreq

(***************************************************************************)
(* C1: a chunk task that has left its coroutine with every one of its      *)
(* requests answered by a rate limit has issued exactly max_retries        *)
(* requests and has returned without an exception, and no audio file       *)
(* exists at its target path.                                              *)
(* The path may be that of another chapter's chunk too (C6), whose task    *)
(* writes the file.                                                        *)
(***************************************************************************)
C1_RetryBound ==
  \A t \in TaskIds :
    (Left(t) /\ AlwaysRateLimited(t)) =>
      /\ tasks[t].nreq = max_retries
      /\ tasks[t].st = "gaveup"
      /\ ~Exists(TaskMp3(t))

(***************************************************************************)
(* C6: two distinct chunk tasks of a run never have the same audio file    *)
(* name (nor, then, the same companion text file name).                    *)
(* Chapters of equal titles, or of titles with the same slug, share them.  *)
(***************************************************************************)
C6_UniquePaths ==
  \A t, u \in TaskIds :
    t # u => (TaskMp3(t) # TaskMp3(u) /\ TaskTxt(t) # TaskTxt(u))

(***************************************************************************)
(* C7: from its first request on, and still when it has ended, a chunk     *)
(* task finds its companion text file in place, holding the chunk's text.  *)
(* A task of another chapter with the same file name (C6) overwrites it.   *)
(***************************************************************************)
C7_CompanionText ==
  \A t \in TaskIds :
    tasks[t].st # "new" =>
      /\ Exists(TaskTxt(t))
      /\ files[TaskTxt(t)].data = TaskChunk(t)

\* The audio files in the directory.
IsMp3(name) ==
  Len(name) >= 4 /\ SubSeq(name, Len(name) - 3, Len(name)) = <<".","m","p","3">>
AudioFiles(fs) == {n \in DOMAIN fs : IsMp3(n)}

\* The chunks of the selected chapters, and the audio file names of them all.
AllChunks ==
  UNION { {<<c, i>> : i \in 0..(NumChunks(ChapterText(c)) - 1)} :
          c \in 1..Len(selected) }
AllAudio == {Mp3Of(ci[1], ci[2]) : ci \in AllChunks}

\* The chapters have been scanned and their tasks have issued a first request.
Launched == pc \in {"done", "ExceptionGroup"} \/ AllStarted
\* The chunks that a request has been issued for in this run.
Requested == {<<tasks[t].c, tasks[t].i>> : t \in {u \in TaskIds : tasks[u].nreq > 0}}
\* Every request of this run has succeeded, and the run is over.
RunAllOk ==
  /\ pc = "done"
  /\ \A t \in TaskIds : tasks[t].st = "done" /\ tasks[t].retries = 0

(***************************************************************************)
(* C2: no task is created, and so no request is issued, for a chunk whose  *)
(* audio file existed when the run started; and a run that follows one in  *)
(* which every request succeeded creates no task, issues no request and    *)
(* leaves the set of files as that run left it.                            *)
(***************************************************************************)
C2_Idempotent ==
  /\ \A t \in TaskIds : TaskMp3(t) \notin DOMAIN files0
  /\ (run > 1 /\ prev.allOk) =>
       /\ tasks = <<>>
       /\ DOMAIN files = DOMAIN files0

\* A second run has ended after a first one that succeeded in every one of
\* its requests, and there were some.
C2_Witness ==
  /\ run > 1
  /\ prev.allOk
  /\ pc = "done"
  /\ Cardinality(AllChunks) >= 2
  /\ AllAudio \subseteq DOMAIN files

(***************************************************************************)
(* C10: in every run, a later one after a partial result included, the     *)
(* chunks that requests are issued for are exactly the chunks of the       *)
(* selected chapters whose audio file was missing when the run started;    *)
(* and when every request of a run has succeeded, be it the first run or   *)
(* one that resumes a partial result, the audio files in the directory are *)
(* exactly those of all the chunks.                                        *)
(***************************************************************************)
C10_Resumable ==
  /\ Launched =>
       Requested = {ci \in AllChunks : Mp3Of(ci[1], ci[2]) \notin DOMAIN files0}
  /\ RunAllOk => AudioFiles(files) = AllAudio

\* A run has resumed a partial result: the run before it ended with chunks
\* given up, this one skipped a chunk, requested another and succeeded.
C10_Witness ==
  /\ run > 1
  /\ prev.end = "done"
  /\ prev.gaveUp
  /\ RunAllOk
  /\ tasks # <<>>
  /\ AllAudio \cap DOMAIN files0 # {}

(***************************************************************************)
(* C5: a chapter task has ended only when every chunk task created for it  *)
(* has ended, and _process_book has ended only when every chapter task,    *)
(* and so every chunk task, has ended; an IndexError ends it before any    *)
(* task exists.                                                            *)
(***************************************************************************)
C5_JoinBarrier ==
  /\ \A c \in 1..Len(chap) :
       chap[c].st \in ChapFinished =>
         \A t \in TasksOfChapter(c) : tasks[t].st \in TaskFinished
  /\ pc \in Ended =>
       /\ \A c \in 1..Len(chap) : chap[c].st \in ChapFinished
       /\ \A t \in TaskIds : tasks[t].st \in TaskFinished
  /\ pc = "IndexError" => (chap = <<>> /\ tasks = <<>>)

\* A run of two chapters and three chunk tasks has ended normally.
C5_Witness ==
  /\ pc = "done"
  /\ Len(chap) >= 2
  /\ Len(tasks) >= 3
  /\ \A c \in 1..Len(chap) : chap[c].st = "done"

(***************************************************************************)
(* C8: a request answered with an error other than a rate limit is the     *)
(* last request of its task, which ends with that error; the chapter of    *)
(* the task and the run then end in an error; once a chapter's group has   *)
(* aborted none of its tasks is running, a chapter cancelled by the book's *)
(* group never reports completion, and when the run has ended every task   *)
(* that had not finished has been cancelled.                               *)
(***************************************************************************)
C8_ErrorPropagates ==
  /\ \A t \in TaskIds :
       tasks[t].last = "error" =>
         /\ tasks[t].st = "failed"
         /\ tasks[t].nreq = tasks[t].retries + 1
  /\ \A t \in TaskIds :
       (tasks[t].st = "failed" /\ chap[tasks[t].c].st \in ChapFinished) =>
         chap[tasks[t].c].st = "failed"
  /\ \A c \in 1..Len(chap) :
       /\ chap[c].aborted =>
            \A t \in TasksOfChapter(c) : tasks[t].st \in TaskFinished
       /\ chap[c].cancelReq => chap[c].st \in {"waiting", "cancelled", "failed"}
       /\ (aborting /\ chap[c].st \notin ChapFinished) => chap[c].cancelReq
  /\ (pc \in Ended /\ \E t \in TaskIds : tasks[t].last = "error") =>
       /\ pc = "ExceptionGroup"
       /\ aborting
       /\ \A t \in TaskIds : tasks[t].st \in TaskFinished

\* A run has ended in an error after one request failed: a sibling of the
\* failing task and a task of another chapter were cancelled.
C8_Witness ==
  /\ pc = "ExceptionGroup"
  /\ \E t, u, v \in TaskIds :
       /\ tasks[t].st = "failed"
       /\ tasks[u].c = tasks[t].c
       /\ tasks[u].st = "cancelled"
       /\ tasks[v].c # tasks[t].c
       /\ tasks[v].st = "cancelled"
       /\ chap[tasks[v].c].st = "cancelled"

\* No request of this run has been answered with an error other than a
\* rate limit.
NoPermanentError == \A t \in TaskIds : tasks[t].last # "error"

\* What holds of a run as long as rate limits are the only errors.
Isolation ==
  NoPermanentError =>
    /\ \A t \in TaskIds : tasks[t].st \notin {"failed", "cancelled"}
    /\ \A c \in 1..Len(chap) :
         /\ chap[c].st \notin {"failed", "cancelled"}
         /\ ~chap[c].cancelReq
         /\ ~chap[c].aborted
    /\ ~aborting
    /\ pc # "ExceptionGroup"
    /\ pc = "done" =>
         \A t \in TaskIds :
           \/ /\ tasks[t].st = "done"
              /\ Exists(TaskMp3(t))
              /\ files[TaskMp3(t)].complete
           \/ /\ tasks[t].st = "gaveup"
              /\ AlwaysRateLimited(t)

(***************************************************************************)
(* C4: as long as rate limits are the only errors of a run, no chunk task  *)
(* and no chapter task fails or is cancelled, and when the run has ended   *)
(* it has ended normally, every task whose retries were not all used up    *)
(* by rate limits having produced its audio file; and every run ends (and  *)
(* with it, by the join of the groups, every task).                        *)
(***************************************************************************)
C4_ExhaustionIsolated ==
  /\ []Isolation
  /\ (pc \notin Ended) ~> (pc \in Ended)

\* A run has ended normally with a chunk given up, a sibling of it done and
\* a chunk of another chapter done.
C4_Witness ==
  /\ pc = "done"
  /\ \E t, u, v \in TaskIds :
       /\ tasks[t].st = "gaveup"
       /\ tasks[u].c = tasks[t].c
       /\ tasks[u].st = "done"
       /\ tasks[v].c # tasks[t].c
       /\ tasks[v].st = "done"

\* The offsets at which a line of s starts.
LineStarts(s) == {p \in 0..(Len(s) - 1) : p = 0 \/ s[p] = "\n"}
\* A blank that does not end the line.
IsBlank(c) == c \in {" ", "\t"}
\* The line at p begins with the marker, followed by a blank.
IsHeadingLine(s, p) == s[p + 1] = "#" /\ p + 1 < Len(s) /\ IsBlank(s[p + 2])
\* Where the title of the heading line at p starts: after the blanks.
TitleStart(s, p) ==
  CHOOSE q \in (p + 1)..Len(s) :
    /\ \A r \in (p + 1)..(q - 1) : IsBlank(s[r + 1])
    /\ q = Len(s) \/ ~IsBlank(s[q + 1])
\* The title of the heading line at p: the rest of that line.
LineTitle(s, p) == Slice(s, TitleStart(s, p), LineEnd(s, p))

(***************************************************************************)
(* C11: the headings recorded by the scan are exactly the lines of the     *)
(* text that begin with the marker followed by a blank, in document order, *)
(* each with the offset of the start of its line and the rest of its line  *)
(* as title; a marker in the middle of a line and a marker followed by a   *)
(* line break give no heading.                                             *)
(* The pattern is not anchored to the start of a line and its whitespace   *)
(* run crosses line breaks, so the code records both.                      *)
(***************************************************************************)
C11_HeadingsAreLines ==
  pc # "read" =>
    /\ {chapters[k][1] : k \in HeadingIds} =
         {p \in LineStarts(text) : IsHeadingLine(text, p)}
    /\ \A k \in HeadingIds :
         /\ chapters[k][2] = LineTitle(text, chapters[k][1])
         /\ k > 1 => chapters[k - 1][1] < chapters[k][1]

\* The title reads Chapter, a space, and anything after it.
IsChapterTitle(title) ==
  /\ Len(title) >= 8
  /\ \A k \in 1..8 : title[k] = GlobPrefix[k]
\* The scan is over and none of the headings it found is a chapter's.
NoChapterHeading ==
  /\ pc # "read"
  /\ \A k \in HeadingIds : ~IsChapterTitle(chapters[k][2])

RequestCount ==
  /\ \A t, u \in TaskIds :
       (tasks[t].c = tasks[u].c /\ tasks[t].i = tasks[u].i) => t = u
  /\ \A t \in TaskIds :
       /\ tasks[t].nreq <= max_retries
       /\ tasks[t].retries <= tasks[t].nreq
       /\ tasks[t].last = "ok" => tasks[t].nreq = tasks[t].retries + 1
       /\ tasks[t].st = "done" =>
            /\ tasks[t].last = "ok"
            /\ tasks[t].retries < max_retries
            /\ tasks[t].nreq = tasks[t].retries + 1
            /\ Exists(TaskMp3(t))

\* What holds of every step of a run, for every chunk task.
RequestStep ==
  \A t \in TaskIds :
    t <= Len(tasks') =>
      /\ tasks[t].st = "done" => tasks'[t] = tasks[t]
      /\ (tasks[t].st # "done" /\ tasks'[t].st = "done") =>
           files'[TaskMp3(t)] = [data |-> TaskChunk(t), complete |-> TRUE]
      /\ tasks'[t].retries # tasks[t].retries =>
           /\ tasks'[t].retries = tasks[t].retries + 1
           /\ tasks[t].st = "requesting"
           /\ tasks'[t].last = "ratelimit"
      /\ tasks'[t].nreq # tasks[t].nreq =>
           tasks'[t].nreq = tasks[t].nreq + 1

(***************************************************************************)
(* C13: a chunk task that ends in success after k rate limits has issued   *)
(* exactly k + 1 requests, with k < max_retries, has written its audio     *)
(* file in full when it ends, is not reported as failed, and issues no     *)
(* request after that; there is one task per chunk and run, a task issues  *)
(* at most max_retries requests, and its retry counter increases only by   *)
(* one, on a rate-limit answer to its request in flight.                   *)
(***************************************************************************)
C13_ExactRequests ==
  /\ []RequestCount
  /\ [][RequestStep]_vars

\* A chunk task has succeeded after a rate limit and its chapter has ended.
C13_Witness ==
  \E t \in TaskIds :
    /\ tasks[t].st = "done"
    /\ tasks[t].retries >= 1
    /\ tasks[t].nreq = tasks[t].retries + 1
    /\ chap[tasks[t].c].st = "done"

\* A sleeping task has been answered with a rate limit, and no sleeping
\* task keeps another one from its next step: the answer to a request in
\* flight and the end of a stream can be taken whoever sleeps.
SleepSuspendsOneTask ==
  /\ \A t \in TaskIds :
       tasks[t].st = "sleeping" =>
         (tasks[t].last = "ratelimit" /\ tasks[t].retries >= 1)
  /\ AllStarted =>
       \A u \in TaskIds :
         /\ tasks[u].st = "requesting" => ENABLED Respond(u, "ok")
         /\ tasks[u].st = "streaming" => ENABLED StreamDone(u)
         /\ tasks[u].st = "sleeping" => ENABLED Wake(u)

\* What holds of every step of a run, for every chunk task.
DelayStep ==
  \A t \in TaskIds :
    t <= Len(tasks') =>
      /\ tasks'[t].retries # tasks[t].retries => tasks'[t].st = "sleeping"
      /\ (tasks'[t].nreq # tasks[t].nreq /\ tasks[t].retries > 0) =>
           tasks[t].st = "sleeping"
      /\ (tasks[t].st = "sleeping" /\ tasks'[t] # tasks[t]) =>
           /\ tasks'[t].st \in {"requesting", "gaveup", "cancelled"}
           /\ tasks'[t].retries = tasks[t].retries
      /\ (tasks[t].st # "gaveup" /\ tasks'[t].st = "gaveup") =>
           tasks[t].st = "sleeping"

(***************************************************************************)
(* C14: the answer of a rate limit puts the task to sleep; a request that  *)
(* follows a rate limit of the same task, and the task's giving up, are    *)
(* steps of a task that was sleeping; a sleeping task does nothing but     *)
(* wake up (or be cancelled); and the sleep of one task suspends no other  *)
(* task.                                                                   *)
(***************************************************************************)
C14_DelayBetweenRetries ==
  /\ []SleepSuspendsOneTask
  /\ [][DelayStep]_vars

\* While one task sleeps after a rate limit, a task created after it has
\* finished its chunk.
C14_Witness ==
  \E t, u \in TaskIds :
    /\ t < u
    /\ tasks[t].st = "sleeping"
    /\ tasks[u].st = "done"

\* No task of the run is at work: the run has ended, or the next one has
\* not yet scanned its chapters.
NoTaskAtWork == pc \in Ended \/ pc \in {"read", "filter", "spawn"}

(***************************************************************************)
(* C15: whenever no task is at work, after any number of runs, every audio *)
(* file in the directory holds a response that was streamed in full, and   *)
(* so does every audio file that the scan of a run has taken for a         *)
(* finished chunk.                                                         *)
(* A task cancelled while its response is streamed leaves the file as far  *)
(* as it was written, and the next run skips the chunk.                    *)
(***************************************************************************)
C15_AudioFilesComplete ==
  /\ NoTaskAtWork => \A n \in AudioFiles(files) : files[n].complete
  /\ \A ci \in AllChunks :
       Mp3Of(ci[1], ci[2]) \in DOMAIN files0 =>
         files0[Mp3Of(ci[1], ci[2])].complete

\* The chunks whose audio file existed when the run started: the ones the
\* scan of their chapter skips.
SkippedChunks == {ci \in AllChunks : Mp3Of(ci[1], ci[2]) \in DOMAIN files0}
\* File name is in this run as it was when the run started.
Untouched(name) ==
  IF name \in DOMAIN files0
  THEN name \in DOMAIN files /\ files[name] = files0[name]
  ELSE name \notin DOMAIN files

(***************************************************************************)
(* C16: for a chunk whose audio file exists when the run scans its         *)
(* chapter, the run creates no task, and the audio file and the companion  *)
(* text file stay as they were when the run started: not rewritten, not    *)
(* truncated, not removed, and not created if absent.                      *)
(***************************************************************************)
C16_SkipFrame ==
  \A ci \in SkippedChunks :
    /\ \A t \in TaskIds : ~(tasks[t].c = ci[1] /\ tasks[t].i = ci[2])
    /\ Untouched(Mp3Of(ci[1], ci[2]))
    /\ Untouched(TxtOf(ci[1], ci[2]))

\* A run has ended that skipped one chunk and converted another.
C16_Witness ==
  /\ pc = "done"
  /\ \E ci \in SkippedChunks : TxtOf(ci[1], ci[2]) \in DOMAIN files0
  /\ \E t \in TaskIds : tasks[t].st = "done"

====
